---- MODULE Spec2Model ----
(***************************************************************************)
(* A model of the log report generator (src/main.py): read_logs, the two   *)
(* report strategies AverageReport and UserAgentReport, the strategy       *)
(* lookup and main.                                                        *)
(*                                                                         *)
(* Python strings are sequences of character codes (ordinal comparison is  *)
(* comparison of the codes), Python floats are IEEE-754 binary64 values    *)
(* m * 2^e with the mantissa m kept as a sequence of limbs, so that        *)
(* float(), +, / and the ".3f" format round exactly as CPython does.       *)
(***************************************************************************)
EXTENDS Integers, Sequences, FiniteSets, TLC

\* ------------------------------------------------------------------------
\* Bounds of the model.

\* Most lines a log file holds.
MaxLines == 3

\* Most characters of the urls drawn over all strings.
MaxUrlLen == 3

\* ------------------------------------------------------------------------
\* Characters (code points) and strings.

Blank == 32
Newline == 10
Hash == 35
Dot == 46
Slash == 47
Digit0 == 48
Question == 63

\* "Unknown"
Unknown == <<85, 110, 107, 110, 111, 119, 110>>

\* str.__lt__: ordinal, lexicographic comparison of two strings.
RECURSIVE StrLess(_, _)
StrLess(s, t) ==
    IF t = <<>> THEN FALSE
    ELSE IF s = <<>> THEN TRUE
    ELSE IF Head(s) # Head(t) THEN Head(s) < Head(t)
    ELSE StrLess(Tail(s), Tail(t))

\* str.split(sep)[0]: the part of s before the first sep, all of s without one.
RECURSIVE SplitFirst(_, _)
SplitFirst(s, sep) ==
    IF s = <<>> \/ Head(s) = sep THEN <<>>
    ELSE <<Head(s)>> \o SplitFirst(Tail(s), sep)

IsSpace(c) == c \in {Blank, Newline, 9, 11, 12, 13}

RECURSIVE LStrip(_)
LStrip(s) == IF s # <<>> /\ IsSpace(Head(s)) THEN LStrip(Tail(s)) ELSE s

RECURSIVE RStrip(_)
RStrip(s) ==
    IF s # <<>> /\ IsSpace(s[Len(s)]) THEN RStrip(SubSeq(s, 1, Len(s) - 1)) ELSE s

\* str.strip(): leading and trailing whitespace removed.
Strip(s) == RStrip(LStrip(s))

\* ------------------------------------------------------------------------
\* Natural numbers of any size: sequences of limbs of LimbBits bits, least
\* significant limb first, without high zero limbs (zero is the empty
\* sequence).  Every intermediate value stays below 2^31.

LimbBits == 15
LimbBase == 2^LimbBits

RECURSIVE BitLenInt(_)
BitLenInt(n) == IF n = 0 THEN 0 ELSE 1 + BitLenInt(n \div 2)

\* n without its high zero limbs.
Trim(n) ==
    LET used == {i \in 1..Len(n) : n[i] # 0}
    IN  IF used = {} THEN <<>>
        ELSE SubSeq(n, 1, CHOOSE i \in used : \A j \in used : j <= i)

RECURSIVE NatOfInt(_)
NatOfInt(n) == IF n = 0 THEN <<>> ELSE <<n % LimbBase>> \o NatOfInt(n \div LimbBase)

RECURSIVE IntOfNat(_)
IntOfNat(n) == IF n = <<>> THEN 0 ELSE Head(n) + LimbBase * IntOfNat(Tail(n))

BitLen(n) == IF n = <<>> THEN 0 ELSE LimbBits * (Len(n) - 1) + BitLenInt(n[Len(n)])

Limb(n, i) == IF i <= Len(n) THEN n[i] ELSE 0

\* Bit i of n, bit 0 the lowest.
TestBit(n, i) == (Limb(n, (i \div LimbBits) + 1) \div 2^(i % LimbBits)) % 2

\* Some bit of n below bit i is set.
LowNonzero(n, i) ==
    \/ \E j \in 1..(i \div LimbBits) : Limb(n, j) # 0
    \/ Limb(n, (i \div LimbBits) + 1) % 2^(i % LimbBits) # 0

\* a + b + carry, limb by limb from limb i
RECURSIVE AddFrom(_, _, _, _)
AddFrom(a, b, i, carry) ==
    IF i > Len(a) /\ i > Len(b) THEN (IF carry = 0 THEN <<>> ELSE <<carry>>)
    ELSE LET t == Limb(a, i) + Limb(b, i) + carry
         IN  <<t % LimbBase>> \o AddFrom(a, b, i + 1, t \div LimbBase)

AddNat(a, b) == AddFrom(a, b, 1, 0)

\* n * c + carry for a small c, limb by limb from limb i
RECURSIVE MulFrom(_, _, _, _)
MulFrom(n, i, carry, c) ==
    IF i > Len(n) THEN NatOfInt(carry)
    ELSE LET t == n[i] * c + carry
         IN  <<t % LimbBase>> \o MulFrom(n, i + 1, t \div LimbBase, c)

\* n * c for a small c
MulSmall(n, c) == Trim(MulFrom(n, 1, 0, c))

\* The quotient of n by a small c from limb i down, r the remainder of the
\* limbs above.
RECURSIVE DivFrom(_, _, _, _)
DivFrom(n, i, r, c) ==
    IF i = 0 THEN [q |-> <<>>, r |-> r]
    ELSE LET t == r * LimbBase + n[i]
             rest == DivFrom(n, i - 1, t % c, c)
         IN  [q |-> rest.q \o <<t \div c>>, r |-> rest.r]

\* n divided by a small c: quotient and remainder.
DivSmall(n, c) == LET d == DivFrom(n, Len(n), 0, c) IN [q |-> Trim(d.q), r |-> d.r]

\* n * 2^k
ShiftLeft(n, k) ==
    IF n = <<>> \/ k <= 0 THEN n
    ELSE [i \in 1..(k \div LimbBits) |-> 0] \o MulSmall(n, 2^(k % LimbBits))

\* n \div 2^k
ShiftRight(n, k) ==
    IF k \div LimbBits >= Len(n) THEN <<>>
    ELSE DivSmall(SubSeq(n, (k \div LimbBits) + 1, Len(n)), 2^(k % LimbBits)).q

\* n \div 2^k rounded to the nearest integer, ties to even.
ShiftRightRound(n, k) ==
    LET q == ShiftRight(n, k)
        up == TestBit(n, k - 1) = 1 /\ (LowNonzero(n, k - 1) \/ TestBit(q, 0) = 1)
    IN  IF up THEN AddNat(q, <<1>>) ELSE q

\* ------------------------------------------------------------------------
\* Python floats: non-negative IEEE-754 binary64 values in the normal range,
\* [m, e] standing for m * 2^e with m below 2^MantBits.

MantBits == 53

FloatZero == [m |-> <<>>, e |-> 0]

\* The float nearest to n * 2^e, ties to the even mantissa.
RoundNat(n, e) ==
    IF BitLen(n) <= MantBits THEN [m |-> n, e |-> e]
    ELSE LET k == BitLen(n) - MantBits
             q == ShiftRightRound(n, k)
         IN  IF BitLen(q) > MantBits
             THEN [m |-> ShiftRight(q, 1), e |-> e + k + 1]
             ELSE [m |-> q, e |-> e + k]

\* The float nearest to (n / c) * 2^e for a small c: n is shifted until the
\* quotient has two bits more than a mantissa, and the quotient gets a low
\* bit that says whether the division left a remainder.
RoundQuotient(n, c, e) ==
    LET shift == IF MantBits + 2 + BitLenInt(c) > BitLen(n)
                 THEN MantBits + 2 + BitLenInt(c) - BitLen(n) ELSE 0
        d == DivSmall(ShiftLeft(n, shift), c)
        sticky == IF d.r = 0 THEN <<>> ELSE <<1>>
    IN  IF n = <<>> THEN FloatZero
        ELSE RoundNat(AddNat(MulSmall(d.q, 2), sticky), e - shift - 1)

\* a + b
FloatAdd(a, b) ==
    LET e == IF a.e < b.e THEN a.e ELSE b.e
    IN  IF a.m = <<>> THEN b
        ELSE IF b.m = <<>> THEN a
        ELSE RoundNat(AddNat(ShiftLeft(a.m, a.e - e), ShiftLeft(b.m, b.e - e)), e)

\* a / count, count an int >= 1
FloatDivInt(a, count) == RoundQuotient(a.m, count, a.e)

\* round(a * 1000) to the nearest integer, ties to even, on the exact value.
MillisOfFloat(a) ==
    IF a.e >= 0 THEN IntOfNat(ShiftLeft(MulSmall(a.m, 1000), a.e))
    ELSE IntOfNat(ShiftRightRound(MulSmall(a.m, 1000), -a.e))

RECURSIVE DecimalDigits(_)
DecimalDigits(n) ==
    IF n < 10 THEN <<Digit0 + n>>
    ELSE DecimalDigits(n \div 10) \o <<Digit0 + (n % 10)>>

\* f"{a:.3f}"
Format3f(a) ==
    LET k == MillisOfFloat(a)
        f == k % 1000
    IN  DecimalDigits(k \div 1000)
          \o <<Dot, Digit0 + (f \div 100), Digit0 + ((f \div 10) % 10), Digit0 + (f % 10)>>

\* ------------------------------------------------------------------------
\* float(s) for a string s: the decimal notation <digits>[.<digits>] with at
\* most three decimals is a number, every other string this model draws is
\* not one (ValueError).

IsDigit(c) == c >= Digit0 /\ c <= Digit0 + 9

RECURSIVE DigitsValue(_)
DigitsValue(s) ==
    IF s = <<>> THEN 0 ELSE 10 * DigitsValue(SubSeq(s, 1, Len(s) - 1)) + (s[Len(s)] - Digit0)

Pow10(k) == IF k = 0 THEN 1 ELSE IF k = 1 THEN 10 ELSE IF k = 2 THEN 100 ELSE 1000

IsDecimal(s) ==
    LET whole == SplitFirst(s, Dot)
        frac == SubSeq(s, Len(whole) + 2, Len(s))
    IN  /\ \A i \in 1..Len(whole) : IsDigit(whole[i])
        /\ \A i \in 1..Len(frac) : IsDigit(frac[i])
        /\ Len(whole) + Len(frac) >= 1
        /\ Len(frac) <= 3

\* float(s) of a decimal s
FloatOfStr(s) ==
    LET whole == SplitFirst(s, Dot)
        frac == SubSeq(s, Len(whole) + 2, Len(s))
    IN  RoundQuotient(NatOfInt(DigitsValue(whole \o frac)), Pow10(Len(frac)), 0)

\* ------------------------------------------------------------------------
\* JSON values and log lines.  A decoded line is a dict (a function from its
\* keys to string values) or a number; a line that is no JSON document keeps
\* its text.

Keys == {"url", "response_time", "http_user_agent", "@timestamp"}

Dict(d) == [type |-> "dict", d |-> d]
Number(n) == [type |-> "int", d |-> <<n>>]
IsDict(v) == v.type = "dict"
Has(v, k) == k \in DOMAIN v.d

JsonLine(v) == [json |-> TRUE, value |-> v, raw |-> <<>>]
TextLine(raw) == [json |-> FALSE, value |-> Number(0), raw |-> raw]

\* json.loads(line): the decoded value, or JSONDecodeError.
json_loads(line) == [ok |-> line.json, value |-> line.value]

\* ------------------------------------------------------------------------
\* Dates.  A timestamp string is its fields as written, [date, hour, offset]
\* (offset: hours east of UTC), or text that is no ISO-8601 timestamp; a
\* date argument is its fields <<year, month, day>> as written.

DaysIn(y, m) ==
    IF m \in {4, 6, 9, 11} THEN 30
    ELSE IF m = 2 THEN (IF y % 4 = 0 /\ (y % 100 # 0 \/ y % 400 = 0) THEN 29 ELSE 28)
    ELSE 31

IsDate(f) ==
    /\ Len(f) = 3
    /\ f[1] >= 1 /\ f[1] <= 9999
    /\ f[2] >= 1 /\ f[2] <= 12
    /\ f[3] >= 1 /\ f[3] <= DaysIn(f[1], f[2])

\* datetime.strptime(s, "%Y-%m-%d").date()
strptime_date(s) == [ok |-> IsDate(s), date |-> s]

Timestamp(date, hour, offset) == [iso |-> TRUE, date |-> date, hour |-> hour, offset |-> offset]
NotATimestamp == [iso |-> FALSE, date |-> <<>>, hour |-> 0, offset |-> 0]

fromisoformat_utc_date(ts) ==
    LET h == ts.hour - ts.offset
        day == IF h < 0 THEN ts.date[3] - 1 ELSE IF h >= 24 THEN ts.date[3] + 1 ELSE ts.date[3]
    IN  [ok |-> ts.iso /\ IsDate(ts.date),
         date |-> IF ts.iso THEN <<ts.date[1], ts.date[2], day>> ELSE ts.date]

\* datetime.fromisoformat(ts).date(): the calendar date as written, the UTC
\* offset left alone.
fromisoformat_date(ts) == [ok |-> ts.iso /\ IsDate(ts.date), date |-> ts.date]

\* ------------------------------------------------------------------------
\* sorted(): a stable insertion sort under a strict order.

\* key=lambda x: x[0]
FirstColumnLess(a, b) == StrLess(a[1], b[1])

\* Tuples (ua, count) as Python orders them.
ItemLess(a, b) == StrLess(a[1], b[1]) \/ (a[1] = b[1] /\ a[2] < b[2])

RECURSIVE InsertByFirst(_, _)
InsertByFirst(row, rows) ==
    IF rows = <<>> THEN <<row>>
    ELSE IF FirstColumnLess(row, Head(rows)) THEN <<row>> \o rows
    ELSE <<Head(rows)>> \o InsertByFirst(row, Tail(rows))

unsorted(rows) == rows

\* sorted(report, key=lambda x: x[0])
RECURSIVE sorted_by_first(_)
sorted_by_first(rows) ==
    IF rows = <<>> THEN <<>>
    ELSE InsertByFirst(rows[Len(rows)], sorted_by_first(SubSeq(rows, 1, Len(rows) - 1)))

RECURSIVE InsertItem(_, _)
InsertItem(row, rows) ==
    IF rows = <<>> THEN <<row>>
    ELSE IF ItemLess(row, Head(rows)) THEN <<row>> \o rows
    ELSE <<Head(rows)>> \o InsertItem(row, Tail(rows))

\* sorted(ua_stats.items())
RECURSIVE sorted_items(_)
sorted_items(items) ==
    IF items = <<>> THEN <<>>
    ELSE InsertItem(items[Len(items)], sorted_items(SubSeq(items, 1, Len(items) - 1)))

\* ------------------------------------------------------------------------
\* A dict in insertion order: a sequence of <<key, value>> entries.

IndexOf(entries, key) ==
    IF \E i \in 1..Len(entries) : entries[i][1] = key
    THEN CHOOSE i \in 1..Len(entries) : entries[i][1] = key
    ELSE 0

Raised(name) == [ok |-> FALSE, err |-> name, data |-> <<>>, headers |-> <<>>]
Returned(data, headers) == [ok |-> TRUE, err |-> "", data |-> data, headers |-> headers]

\* ------------------------------------------------------------------------
\* AverageReport.generate

endpoint_of_query_only(url) == SplitFirst(url, Question)

\* log["url"].split('?')[0].split('#')[0]
endpoint_of(url) == SplitFirst(SplitFirst(url, Question), Hash)

add_time_new_only(stats, endpoint, time) ==
    IF IndexOf(stats, endpoint) = 0
    THEN Append(stats, <<endpoint, [count |-> 1, total_time |-> FloatAdd(FloatZero, time)]>>)
    ELSE stats

\* endpoint_stats[endpoint]["count"] += 1; ["total_time"] += time
\* (a missing endpoint starts at count 0, total_time 0)
add_time(stats, endpoint, time) ==
    LET i == IndexOf(stats, endpoint)
    IN  IF i = 0
        THEN Append(stats, <<endpoint, [count |-> 1, total_time |-> FloatAdd(FloatZero, time)]>>)
        ELSE [stats EXCEPT ![i] = <<endpoint, [count |-> stats[i][2].count + 1,
                                                total_time |-> FloatAdd(stats[i][2].total_time, time)]>>]

average_raises_lenient(log) ==
    IF ~IsDict(log) THEN "TypeError"
    ELSE IF ~Has(log, "url") \/ ~Has(log, "response_time") THEN "KeyError"
    ELSE ""

\* The exception the loop body raises on a log, "" when it raises none.
average_raises(log) ==
    IF ~IsDict(log) THEN "TypeError"
    ELSE IF ~Has(log, "url") \/ ~Has(log, "response_time") THEN "KeyError"
    ELSE IF ~IsDecimal(log.d["response_time"]) THEN "ValueError"
    ELSE ""

\* for log in logs: ... over logs[i..], from the stats so far.
RECURSIVE average_loop(_, _, _)
average_loop(logs, i, stats) ==
    IF i > Len(logs) THEN [err |-> "", stats |-> stats]
    ELSE IF average_raises(logs[i]) # "" THEN [err |-> average_raises(logs[i]), stats |-> stats]
    ELSE average_loop(logs, i + 1,
                      add_time(stats, endpoint_of(logs[i].d["url"]),
                               FloatOfStr(logs[i].d["response_time"])))

avg_time_total(stats) == stats.total_time

\* stats["total_time"] / stats["count"]
avg_time(stats) == FloatDivInt(stats.total_time, stats.count)

\* [endpoint, stats["count"], f"{avg_time:.3f}"]
average_row(entry) == <<entry[1], entry[2].count, Format3f(avg_time(entry[2]))>>

AverageHeaders == <<"Endpoint", "Count", "Average Time">>

AverageReport_generate(logs) ==
    LET r == average_loop(logs, 1, <<>>)
    IN  IF r.err # "" THEN Raised(r.err)
        ELSE Returned(sorted_by_first([i \in 1..Len(r.stats) |-> average_row(r.stats[i])]),
                      AverageHeaders)

\* ------------------------------------------------------------------------
\* UserAgentReport.generate

user_agent_or_empty(log) == IF Has(log, "http_user_agent") THEN log.d["http_user_agent"] ELSE <<>>

\* log.get("http_user_agent", "Unknown")
user_agent_of(log) == IF Has(log, "http_user_agent") THEN log.d["http_user_agent"] ELSE Unknown

\* ua_stats[ua] += 1 (a missing ua starts at 0)
add_count(stats, ua) ==
    LET i == IndexOf(stats, ua)
    IN  IF i = 0 THEN Append(stats, <<ua, 1>>)
        ELSE [stats EXCEPT ![i] = <<ua, stats[i][2] + 1>>]

RECURSIVE user_agent_loop(_, _, _)
user_agent_loop(logs, i, stats) ==
    IF i > Len(logs) THEN [err |-> "", stats |-> stats]
    ELSE IF ~IsDict(logs[i]) THEN [err |-> "AttributeError", stats |-> stats]
    ELSE user_agent_loop(logs, i + 1, add_count(stats, user_agent_of(logs[i])))

UserAgentHeaders == <<"User-Agent", "Count">>

UserAgentReport_generate(logs) ==
    LET r == user_agent_loop(logs, 1, <<>>)
    IN  IF r.err # "" THEN Raised(r.err)
        ELSE Returned(sorted_items(r.stats), UserAgentHeaders)

\* ------------------------------------------------------------------------
\* Strategy lookup and the argument parser.

\* strategies.get(report_type): None for a name that is not a key.
get_report_strategy(report_type) ==
    IF report_type = "average" THEN "AverageReport"
    ELSE IF report_type = "user_agent" THEN "UserAgentReport"
    ELSE "None"

\* strategy.generate(logs)
generate(strategy, logs) ==
    IF strategy = "AverageReport" THEN AverageReport_generate(logs)
    ELSE UserAgentReport_generate(logs)

any_report_name(report_type) == TRUE

\* --report choices=["average", "user_agent"]: argparse exits on another name.
report_choice_ok(report_type) == report_type \in {"average", "user_agent"}

\* ------------------------------------------------------------------------
\* The state of one run of main.

VARIABLES
    argv,         \* the command line: [file, report, date]
    disk,         \* path -> [exists, lines]: the files as they are on disk
    pc,           \* where the run is
    date_filter,  \* read_logs' date_filter once parsed: [set, date]
    fi,           \* index in file_paths of the current file_path
    li,           \* lines of the current file already read
    logs,         \* read_logs' logs
    opened,       \* the paths open() has opened, in order
    stdout,       \* what was printed to standard output, in order
    strategy,     \* main's strategy
    report,       \* main's (report_data, headers)
    err           \* the exception that ended the run, "" for none

vars == <<argv, disk, pc, date_filter, fi, li, logs, opened, stdout, strategy, report, err>>

NoDate == [given |-> FALSE, text |-> <<>>]
DateArg(text) == [given |-> TRUE, text |-> text]

NoFilter == [set |-> FALSE, date |-> <<>>]

NoFile == [exists |-> FALSE, lines |-> <<>>]
File(lines) == [exists |-> TRUE, lines |-> lines]

NoReport == Returned(<<>>, <<>>)

\* print(f"Skipping invalid JSON line: {line.strip()}")
skip_message(line) ==
    [kind |-> "skip", prefix |-> "Skipping invalid JSON line: ", text |-> Strip(line.raw),
     data |-> <<>>, headers |-> <<>>]

\* print(tabulate(report_data, headers=headers, tablefmt="grid"))
table_message(data, headers) ==
    [kind |-> "table", prefix |-> "", text |-> <<>>, data |-> data, headers |-> headers]

\* The state main starts in, for a command line and the files on disk.
InitWith(args, files) ==
    /\ argv = args
    /\ disk = files
    /\ pc = "parse_args"
    /\ date_filter = NoFilter
    /\ fi = 1
    /\ li = 0
    /\ logs = <<>>
    /\ opened = <<>>
    /\ stdout = <<>>
    /\ strategy = "None"
    /\ report = NoReport
    /\ err = ""

Raise(name) ==
    /\ pc' = "error"
    /\ err' = name

\* args = parse_args(): argparse exits when --report is none of its choices.
parse_args ==
    /\ pc = "parse_args"
    /\ IF report_choice_ok(argv.report)
       THEN pc' = "read_logs" /\ err' = err
       ELSE Raise("SystemExit")
    /\ UNCHANGED <<argv, disk, date_filter, fi, li, logs, opened, stdout, strategy, report>>

\* if date_filter: a date argument that is given and not the empty string.
date_given(date) == date.given /\ date.text # <<>>

\* read_logs, up to the loop: logs = [] and the date filter parsed.
read_logs_enter ==
    /\ pc = "read_logs"
    /\ logs' = <<>>
    /\ fi' = 1
    /\ IF date_given(argv.date)
       THEN IF strptime_date(argv.date.text).ok
            THEN /\ date_filter' = [set |-> TRUE, date |-> strptime_date(argv.date.text).date]
                 /\ pc' = "for_file" /\ err' = err
            ELSE /\ date_filter' = date_filter
                 /\ Raise("ValueError")
       ELSE /\ date_filter' = NoFilter
            /\ pc' = "for_file" /\ err' = err
    /\ UNCHANGED <<argv, disk, li, opened, stdout, strategy, report>>

\* for file_path in file_paths: with open(file_path, "r") as f
open_file ==
    /\ pc = "for_file"
    /\ fi <= Len(argv.file)
    /\ IF disk[argv.file[fi]].exists
       THEN /\ opened' = Append(opened, argv.file[fi])
            /\ li' = 0
            /\ pc' = "for_line" /\ err' = err
       ELSE /\ UNCHANGED <<opened, li>>
            /\ Raise("FileNotFoundError")
    /\ UNCHANGED <<argv, disk, date_filter, fi, logs, stdout, strategy, report>>

line_outcome_uncaught(line, filter) ==
    LET r == json_loads(line)
    IN  IF ~r.ok THEN "JSONDecodeError"
        ELSE IF ~filter.set THEN "append"
        ELSE IF ~IsDict(r.value) THEN "TypeError"
        ELSE IF ~Has(r.value, "@timestamp") THEN "KeyError"
        ELSE IF ~fromisoformat_date(r.value.d["@timestamp"]).ok THEN "ValueError"
        ELSE IF fromisoformat_date(r.value.d["@timestamp"]).date # filter.date THEN "continue"
        ELSE "append"

\* What the body of "for line in f" does with one line: "append" the log,
\* "continue" past a log of another date, "skip" a line that is no JSON, or
\* an exception that is not caught.
line_outcome(line, filter) ==
    LET r == json_loads(line)
    IN  IF ~r.ok THEN "skip"
        ELSE IF ~filter.set THEN "append"
        ELSE IF ~IsDict(r.value) THEN "TypeError"
        ELSE IF ~Has(r.value, "@timestamp") THEN "KeyError"
        ELSE IF ~fromisoformat_date(r.value.d["@timestamp"]).ok THEN "ValueError"
        ELSE IF fromisoformat_date(r.value.d["@timestamp"]).date # filter.date THEN "continue"
        ELSE "append"

prepend_log(ls, log) == <<log>> \o ls

\* logs.append(log)
append_log(ls, log) == Append(ls, log)

\* One turn of "for line in f".
read_line ==
    /\ pc = "for_line"
    /\ li < Len(disk[argv.file[fi]].lines)
    /\ LET line == disk[argv.file[fi]].lines[li + 1]
           what == line_outcome(line, date_filter)
       IN  /\ li' = li + 1
           /\ logs' = IF what = "append" THEN append_log(logs, json_loads(line).value) ELSE logs
           /\ stdout' = IF what = "skip" THEN Append(stdout, skip_message(line)) ELSE stdout
           /\ IF what \in {"append", "continue", "skip"}
              THEN pc' = pc /\ err' = err
              ELSE Raise(what)
    /\ UNCHANGED <<argv, disk, date_filter, fi, opened, strategy, report>>

\* The file is exhausted: the with block ends, on to the next file_path.
close_file ==
    /\ pc = "for_line"
    /\ li = Len(disk[argv.file[fi]].lines)
    /\ fi' = fi + 1
    /\ pc' = "for_file"
    /\ UNCHANGED <<argv, disk, date_filter, li, logs, opened, stdout, strategy, report, err>>

\* return logs
read_logs_return ==
    /\ pc = "for_file"
    /\ fi > Len(argv.file)
    /\ pc' = "get_report_strategy"
    /\ UNCHANGED <<argv, disk, date_filter, fi, li, logs, opened, stdout, strategy, report, err>>

\* strategy = get_report_strategy(args.report); if not strategy: raise ValueError
select_strategy ==
    /\ pc = "get_report_strategy"
    /\ strategy' = get_report_strategy(argv.report)
    /\ IF get_report_strategy(argv.report) = "None"
       THEN Raise("ValueError")
       ELSE pc' = "generate" /\ err' = err
    /\ UNCHANGED <<argv, disk, date_filter, fi, li, logs, opened, stdout, report>>

\* report_data, headers = strategy.generate(logs)
generate_report ==
    /\ pc = "generate"
    /\ LET r == generate(strategy, logs)
       IN  IF r.ok
           THEN report' = r /\ pc' = "print" /\ err' = err
           ELSE report' = report /\ Raise(r.err)
    /\ UNCHANGED <<argv, disk, date_filter, fi, li, logs, opened, stdout, strategy>>

\* print(tabulate(report_data, headers=headers, tablefmt="grid"))
print_report ==
    /\ pc = "print"
    /\ stdout' = Append(stdout, table_message(report.data, report.headers))
    /\ pc' = "done"
    /\ UNCHANGED <<argv, disk, date_filter, fi, li, logs, opened, strategy, report, err>>

Next ==
    \/ parse_args
    \/ read_logs_enter
    \/ open_file
    \/ read_line
    \/ close_file
    \/ read_logs_return
    \/ select_strategy
    \/ generate_report
    \/ print_report

\* ------------------------------------------------------------------------
\* The inputs the runs are drawn from.

\* Sequences over S of at most n elements.
SeqsUpTo(S, n) == UNION {[1..k -> S] : k \in 0..n}

\* "a", "b", "x"
Letters == <<97, 98, 120>>
LetterA == Letters[1]
LetterB == Letters[2]
LetterX == Letters[3]

UrlA == <<Slash, LetterA>>                              \* "/a"
UrlAQuery == <<Slash, LetterA, Question, LetterB>>      \* "/a?b"
UrlB == <<Slash, LetterB>>                              \* "/b"
UrlBFragment == <<Slash, LetterB, Hash, LetterA>>       \* "/b#a"

Rt123 == <<Digit0, Dot, Digit0 + 1, Digit0 + 2, Digit0 + 3>>   \* "0.123"
Rt456 == <<Digit0, Dot, Digit0 + 4, Digit0 + 5, Digit0 + 6>>   \* "0.456"
Rt15 == <<Digit0 + 1, Dot, Digit0 + 5>>                        \* "1.5"
RtWord == <<LetterX>>                                          \* "x"

AgentA == <<LetterA>>
AgentB == <<LetterB>>

June22 == <<2025, 6, 22>>
June23 == <<2025, 6, 23>>
Month13 == <<2025, 13, 1>>

Log(url, time, agent, ts) ==
    Dict([k \in Keys |-> CASE k = "url" -> url
                           [] k = "response_time" -> time
                           [] k = "http_user_agent" -> agent
                           [] OTHER -> ts])

\* d without key k
Without(v, k) == Dict([j \in (DOMAIN v.d) \ {k} |-> v.d[j]])

PathA == "a.log"
PathB == "b.log"
PathMissing == "missing.log"
Paths == {PathA, PathB, PathMissing}

Disk(a, b) == [p \in Paths |-> IF p = PathA THEN File(a) ELSE IF p = PathB THEN File(b) ELSE NoFile]

Args(file, rep, date) == [file |-> file, report |-> rep, date |-> date]

\* A text file's lines end with a newline, but for the last.
IsTextFile(lines) ==
    \A i \in 1..(Len(lines) - 1) :
        ~lines[i].json => (lines[i].raw # <<>> /\ lines[i].raw[Len(lines[i].raw)] = Newline)

\* The runs of main over a small mix of lines, for every report name, date
\* argument and file list.
MainLog == Log(UrlA, Rt123, AgentA, Timestamp(June22, 0, 0))

MainLines ==
    { TextLine(<<Blank, LetterX, Blank, Newline>>),
      JsonLine(MainLog),
      JsonLine(Without(Log(UrlB, Rt456, AgentB, Timestamp(June22, 1, 0)), "@timestamp")),
      JsonLine(Log(UrlB, Rt456, AgentB, NotATimestamp)),
      JsonLine(Log(UrlB, RtWord, AgentB, Timestamp(June22, 1, 0))),
      JsonLine(Number(42)) }

MainArgs ==
    { Args(f, r, d) : f \in {<<PathA>>, <<PathA, PathMissing>>, <<PathMissing>>},
                      r \in {"average", "user_agent", "bogus"},
                      d \in {NoDate, DateArg(June22), DateArg(Month13)} }

Init ==
    \E args \in MainArgs, a \in SeqsUpTo(MainLines, MaxLines) :
        InitWith(args, Disk(a, <<>>))

Spec == Init /\ [][Next]_vars

\* The runs that read files of every mix of lines: text that is no JSON,
\* with and without blanks around it, numbers, logs of two dates and three
\* UTC offsets, logs without a timestamp or with one that is none.
ReadLines ==
    { TextLine(<<LetterX, Newline>>),
      TextLine(<<Blank, LetterX, Blank, Newline>>),
      JsonLine(Number(42)),
      JsonLine(Log(UrlA, Rt123, AgentA, Timestamp(June22, 0, 0))),
      JsonLine(Log(UrlA, Rt123, AgentA, Timestamp(June23, 0, 0))),
      JsonLine(Log(UrlA, Rt123, AgentA, Timestamp(June22, 23, -5))),
      JsonLine(Without(Log(UrlA, Rt123, AgentA, NotATimestamp), "@timestamp")),
      JsonLine(Log(UrlA, Rt123, AgentA, NotATimestamp)) }

ReadFilesB ==
    { <<JsonLine(Log(UrlB, Rt123, AgentB, Timestamp(June22, 2, 0)))>>,
      <<JsonLine(Log(UrlB, Rt123, AgentB, Timestamp(June23, 1, 3))), TextLine(<<LetterX>>)>> }

ReadArgs ==
    { Args(f, "user_agent", d) :
        f \in {<<PathA>>, <<PathA, PathB>>, <<PathB, PathA>>, <<PathA, PathA>>,
               <<PathA, PathMissing, PathB>>},
        d \in {NoDate, DateArg(<<>>), DateArg(June22), DateArg(Month13)} }

ReadInit ==
    \E args \in ReadArgs, a \in SeqsUpTo(ReadLines, MaxLines), b \in ReadFilesB :
        /\ IsTextFile(a)
        /\ InitWith(args, Disk(a, b))

ReadSpec == ReadInit /\ [][Next]_vars

\* The runs that report on files of logs only: every sequence of logs of
\* four urls and three response times for the average report, every
\* sequence of logs of three user agents or none for the user agent report,
\* and every url of at most MaxUrlLen characters, alone or before another.
ReportUrls == {UrlA, UrlAQuery, UrlB, UrlBFragment}

AverageLines ==
    { JsonLine(Log(u, t, AgentA, Timestamp(June22, 0, 0))) :
        u \in ReportUrls, t \in {Rt123, Rt456, Rt15} }

UserAgentLines ==
    { JsonLine(Log(UrlA, Rt123, ua, Timestamp(June22, 0, 0))) : ua \in {AgentA, AgentB, Unknown} }
      \cup { JsonLine(Without(Log(UrlA, Rt123, AgentA, Timestamp(June22, 0, 0)), "http_user_agent")) }

UrlChars == {Slash, LetterA, Question, Hash}

UrlLine(u) == JsonLine(Log(u, Rt15, AgentA, Timestamp(June22, 0, 0)))

UrlFiles ==
    { <<UrlLine(u)>> : u \in SeqsUpTo(UrlChars, MaxUrlLen) }
      \cup { <<UrlLine(u), UrlLine(v)>> :
                u \in SeqsUpTo(UrlChars, MaxUrlLen), v \in ReportUrls \cup {<<LetterA>>, <<Slash>>} }

ReportInit ==
    \/ \E a \in SeqsUpTo(AverageLines, MaxLines) :
          InitWith(Args(<<PathA>>, "average", NoDate), Disk(a, <<>>))
    \/ \E a \in SeqsUpTo(UserAgentLines, MaxLines) :
          InitWith(Args(<<PathA>>, "user_agent", NoDate), Disk(a, <<>>))
    \/ \E a \in UrlFiles :
          InitWith(Args(<<PathA>>, "average", NoDate), Disk(a, <<>>))

ReportSpec == ReportInit /\ [][Next]_vars

\* ------------------------------------------------------------------------
\* What a run has read so far.

\* The lines of the i-th file_path.
FileLines(i) == disk[argv.file[i]].lines

\* The lines of the file_paths before the i-th, in order.
RECURSIVE LinesBefore(_)
LinesBefore(i) == IF i <= 1 THEN <<>> ELSE LinesBefore(i - 1) \o FileLines(i - 1)

\* The lines the loop body has been run on: the files before the current
\* one, and the lines read of the current one if it is open.
Consumed ==
    LinesBefore(fi) \o (IF Len(opened) = fi THEN SubSeq(FileLines(fi), 1, li) ELSE <<>>)

\* read_logs has returned.
HasReturned == fi > Len(argv.file) /\ pc \in {"get_report_strategy", "generate", "print", "done", "error"}

IsJson(line) == line.json
IsText(line) == ~line.json

ValuesOf(lines) == [i \in 1..Len(lines) |-> lines[i].value]

SkipsOf(out) == SelectSeq(out, LAMBDA m : m.kind = "skip")

\* The date written in the timestamp of a decoded line.
WrittenDate(line) == line.value.d["@timestamp"].date

\* ------------------------------------------------------------------------
\* C1: read_logs returns the surviving records in input order: file by file
\* in the order the paths were given, line by line within a file, each
\* surviving record once and nothing else; without a date filter the
\* survivors are all the lines that decode as JSON.
C1_Survives(line) ==
    IsJson(line) /\ (date_filter.set => WrittenDate(line) = date_filter.date)

C1_ReadInOrder ==
    HasReturned =>
        /\ logs = ValuesOf(SelectSeq(LinesBefore(Len(argv.file) + 1), C1_Survives))
        /\ ~date_filter.set =>
               Len(logs) = Cardinality({i \in 1..Len(Consumed) : IsJson(Consumed[i])})

\* C1 witness: two files read without a filter, records of both returned
\* around a line that is no JSON, the first file's records first.
C1_Witness ==
    /\ pc = "done"
    /\ argv.file = <<PathB, PathA>>
    /\ ~date_filter.set
    /\ Len(logs) = 3
    /\ logs[1] = FileLines(1)[1].value
    /\ logs[2] # logs[1]
    /\ logs[3] # logs[2]
    /\ Len(stdout) = 3

\* ------------------------------------------------------------------------
\* C2: a line that fails JSON decoding is skipped with exactly one
\* diagnostic on standard output, never appears in the records, and never
\* ends the run: the lines and files after it are still read.

\* The lines read so far that are no JSON, in order.
C2_TextLines == SelectSeq(Consumed, IsText)

\* The diagnostics printed so far are, in order, one per such line, with
\* the given texts.
C2_OnePerLine(texts) ==
    /\ Len(SkipsOf(stdout)) = Len(texts)
    /\ \A i \in 1..Len(texts) :
          /\ SkipsOf(stdout)[i].prefix = "Skipping invalid JSON line: "
          /\ SkipsOf(stdout)[i].text = texts[i]

\* No record comes from such a line.
C2_NotInLogs == Len(logs) <= Cardinality({i \in 1..Len(Consumed) : IsJson(Consumed[i])})

\* A run that ended inside the loop body ended on a line that is JSON.
C2_NeverAborts ==
    (pc = "error" /\ fi <= Len(argv.file) /\ Len(opened) = fi) =>
        IsJson(Consumed[Len(Consumed)])

\* The raw line, without its line terminator.
C2_RawLine(raw) ==
    IF raw # <<>> /\ raw[Len(raw)] = Newline THEN SubSeq(raw, 1, Len(raw) - 1) ELSE raw

C3_OnDate(line) == IsJson(line) /\ WrittenDate(line) = date_filter.date

C3_ExactDate ==
    (HasReturned /\ date_filter.set) =>
        /\ date_filter.date = argv.date.text
        /\ \A i \in 1..Len(logs) : logs[i].d["@timestamp"].date = argv.date.text
        /\ Len(logs) = Cardinality({i \in 1..Len(Consumed) : C3_OnDate(Consumed[i])})
        /\ \A i \in 1..Len(Consumed) :
              C3_OnDate(Consumed[i]) => \E j \in 1..Len(logs) : logs[j] = Consumed[i].value
        /\ Len(SkipsOf(stdout)) = Len(SelectSeq(Consumed, IsText))

\* C3 witness: under the filter 2025-06-22 a record of 2025-06-23 was
\* dropped and one written 2025-06-22T23:00-05:00 returned, nothing printed.
C3_Witness ==
    /\ pc = "get_report_strategy"
    /\ date_filter.set
    /\ date_filter.date = June22
    /\ \E i \in 1..Len(Consumed) : IsJson(Consumed[i]) /\ WrittenDate(Consumed[i]) = June23
    /\ \E j \in 1..Len(logs) : logs[j].d["@timestamp"].offset = -5
    /\ stdout = <<>>

\* ------------------------------------------------------------------------
\* The reports.

\* strategy.generate(logs) has returned the report of the named strategy.
Generated(name) == pc \in {"print", "done"} /\ strategy = name

UrlOf(i) == logs[i].d["url"]

RECURSIVE SumOfCounts(_)
SumOfCounts(rows) == IF rows = <<>> THEN 0 ELSE Head(rows)[2] + SumOfCounts(Tail(rows))

FirstColumns(rows) == {rows[r][1] : r \in 1..Len(rows)}

\* ------------------------------------------------------------------------
\* C4: for a non-empty sequence of records with numeric response times the
\* average report has one row per distinct normalized endpoint, a row's
\* count is the number of records of its endpoint, and the counts sum to the
\* number of records.
C4_Endpoints == {endpoint_of(UrlOf(i)) : i \in 1..Len(logs)}

C4_OneRowPerEndpoint ==
    (Generated("AverageReport") /\ logs # <<>>) =>
        /\ Len(report.data) = Cardinality(C4_Endpoints)
        /\ FirstColumns(report.data) = C4_Endpoints
        /\ \A r \in 1..Len(report.data) :
              report.data[r][2] =
                  Cardinality({i \in 1..Len(logs) : endpoint_of(UrlOf(i)) = report.data[r][1]})
        /\ SumOfCounts(report.data) = Len(logs)
        /\ report.headers = <<"Endpoint", "Count", "Average Time">>

\* C4 witness: three records of two endpoints reported in two rows.
C4_Witness ==
    /\ Generated("AverageReport")
    /\ Len(logs) = 3
    /\ Len(report.data) = 2
    /\ report.data[1][2] = 2
    /\ report.data[2][2] = 1

\* ------------------------------------------------------------------------
\* C5: a row's average is the sum of its endpoint's response times divided
\* by their number, which is at least 1, written with exactly 3 decimals:
\* the nearest multiple of 0.001 to the mean.  Records 0.123 and 0.456 of
\* one endpoint give count 2 and "0.289".

\* A decimal string in thousandths.
C5_Millis(s) ==
    LET whole == SplitFirst(s, Dot)
        frac == SubSeq(s, Len(whole) + 2, Len(s))
    IN  DigitsValue(whole \o frac) * Pow10(3 - Len(frac))

C5_ThreeDecimals(s) ==
    /\ Len(s) >= 5
    /\ s[Len(s) - 3] = Dot
    /\ \A i \in (1..Len(s)) \ {Len(s) - 3} : IsDigit(s[i])

\* The records of an endpoint.
C5_Of(endpoint) == {i \in 1..Len(logs) : endpoint_of(UrlOf(i)) = endpoint}

RECURSIVE C5_Total(_)
C5_Total(records) ==
    IF records = {} THEN 0
    ELSE LET i == CHOOSE j \in records : TRUE
         IN  C5_Millis(logs[i].d["response_time"]) + C5_Total(records \ {i})

C5_Abs(x) == IF x < 0 THEN -x ELSE x

C5_Average ==
    Generated("AverageReport") =>
        \A r \in 1..Len(report.data) :
            LET row == report.data[r]
                of == C5_Of(row[1])
            IN  /\ row[2] >= 1
                /\ row[2] = Cardinality(of)
                /\ C5_ThreeDecimals(row[3])
                /\ 2 * C5_Abs(C5_Millis(row[3]) * row[2] - C5_Total(of)) <= row[2]
                /\ {logs[i].d["response_time"] : i \in of} = {Rt123, Rt456} /\ row[2] = 2
                      => row[3] = <<Digit0, Dot, Digit0 + 2, Digit0 + 8, Digit0 + 9>>

\* C5 witness: 0.123 and 0.456 on one endpoint, reported as 2 and "0.289".
C5_Witness ==
    /\ Generated("AverageReport")
    /\ Len(logs) = 3
    /\ \E r \in 1..Len(report.data) :
          /\ report.data[r][2] = 2
          /\ {logs[i].d["response_time"] : i \in C5_Of(report.data[r][1])} = {Rt123, Rt456}
          /\ report.data[r][3] = <<Digit0, Dot, Digit0 + 2, Digit0 + 8, Digit0 + 9>>

\* ------------------------------------------------------------------------
\* C6: the normalization of urls is idempotent, a normalized endpoint holds
\* neither '?' nor '#', and urls that differ only in query string and
\* fragment are counted in one row.

\* The url up to its first '?' or '#', whichever comes first.
C6_Base(url) ==
    LET cuts == {i \in 1..Len(url) : url[i] \in {Question, Hash}}
    IN  IF cuts = {} THEN url
        ELSE SubSeq(url, 1, (CHOOSE i \in cuts : \A j \in cuts : i <= j) - 1)

C6_Normalized ==
    Generated("AverageReport") =>
        /\ \A r \in 1..Len(report.data) :
              /\ \A k \in 1..Len(report.data[r][1]) : report.data[r][1][k] \notin {Question, Hash}
              /\ endpoint_of(report.data[r][1]) = report.data[r][1]
        /\ \A i \in 1..Len(logs) :
              /\ endpoint_of(UrlOf(i)) = C6_Base(UrlOf(i))
              /\ endpoint_of(endpoint_of(UrlOf(i))) = endpoint_of(UrlOf(i))
              /\ \E r \in 1..Len(report.data) :
                    /\ report.data[r][1] = C6_Base(UrlOf(i))
                    /\ report.data[r][2] =
                          Cardinality({j \in 1..Len(logs) : C6_Base(UrlOf(j)) = C6_Base(UrlOf(i))})

\* C6 witness: a url with a fragment that holds a '?' and a url with a
\* query string, of the same endpoint, counted in one row.
C6_Witness ==
    /\ Generated("AverageReport")
    /\ Len(logs) = 2
    /\ UrlOf(1) = <<LetterA, Hash, Question>>
    /\ UrlOf(2) = <<LetterA>>
    /\ Len(report.data) = 1
    /\ report.data[1][1] = <<LetterA>>
    /\ report.data[1][2] = 2

\* ------------------------------------------------------------------------
\* C7: the user agent report groups the records by their http_user_agent as
\* it is written, the records without one under "Unknown", one row
\* [user_agent, count] per value, the counts summing to the number of records.
C7_Agent(log) ==
    IF "http_user_agent" \in DOMAIN log.d THEN log.d["http_user_agent"]
    ELSE <<85, 110, 107, 110, 111, 119, 110>>

C7_UserAgents ==
    Generated("UserAgentReport") =>
        /\ FirstColumns(report.data) = {C7_Agent(logs[i]) : i \in 1..Len(logs)}
        /\ Len(report.data) = Cardinality(FirstColumns(report.data))
        /\ \A r \in 1..Len(report.data) :
              /\ Len(report.data[r]) = 2
              /\ report.data[r][2] =
                    Cardinality({i \in 1..Len(logs) : C7_Agent(logs[i]) = report.data[r][1]})
        /\ SumOfCounts(report.data) = Len(logs)
        /\ report.headers = <<"User-Agent", "Count">>

\* C7 witness: two records without a user agent and one of agent "a".
C7_Witness ==
    /\ Generated("UserAgentReport")
    /\ Len(logs) = 3
    /\ Cardinality({i \in 1..Len(logs) : "http_user_agent" \notin DOMAIN logs[i].d}) = 2
    /\ report.data = <<<<Unknown, 2>>, <<AgentA, 1>>>>

\* ------------------------------------------------------------------------
\* C8: the rows of both reports are in strictly ascending order of their
\* first column, whatever the order of the records.

\* s comes before t in the ordinal order of strings.
C8_Before(s, t) ==
    \E k \in 1..(Len(t)) :
        /\ k <= Len(s) + 1
        /\ \A j \in 1..(k - 1) : s[j] = t[j]
        /\ (k = Len(s) + 1 \/ s[k] < t[k])

C8_Ascending(rows) == \A r \in 1..(Len(rows) - 1) : C8_Before(rows[r][1], rows[r + 1][1])

C8_Sorted ==
    /\ Generated("AverageReport") =>
          C8_Ascending(report.data) /\ FirstColumns(report.data) = C4_Endpoints
    /\ Generated("UserAgentReport") =>
          /\ C8_Ascending(report.data)
          /\ FirstColumns(report.data) = {C7_Agent(logs[i]) : i \in 1..Len(logs)}

\* C8 witness: records of agent "b", of no agent and of agent "a", read in
\* that order and reported as "Unknown", "a", "b".
C8_Witness ==
    /\ Generated("UserAgentReport")
    /\ Len(logs) = 3
    /\ C7_Agent(logs[1]) = AgentB
    /\ "http_user_agent" \notin DOMAIN logs[2].d
    /\ C7_Agent(logs[3]) = AgentA
    /\ report.data = <<<<Unknown, 1>>, <<AgentA, 1>>, <<AgentB, 1>>>>

\* ------------------------------------------------------------------------
\* C9: a report name that is neither "average" nor "user_agent" ends the run
\* before anything is processed: no file was opened or read and nothing was
\* printed when the error is raised.
C9_UnknownReportFirst ==
    argv.report \notin {"average", "user_agent"} =>
        /\ pc \in {"parse_args", "error"}
        /\ opened = <<>>
        /\ logs = <<>>
        /\ stdout = <<>>
        /\ li = 0

\* C9 witness: the run with the name "bogus" has ended in an error, with a
\* file on disk whose first line would have been reported as no JSON.
C9_Witness ==
    /\ pc = "error"
    /\ err # ""
    /\ argv.report = "bogus"
    /\ argv.file = <<PathA>>
    /\ Len(disk[PathA].lines) = 2
    /\ IsText(disk[PathA].lines[1])

\* ------------------------------------------------------------------------
\* C10: a run that ends in a fatal error prints nothing to standard output.

\* The lines of all the files named, had they all been read.
C10_AllLines == LinesBefore(Len(argv.file) + 1)

C10_Filtering == date_given(argv.date)

\* The lines whose records read_logs would return.
C10_Surviving(line) ==
    /\ IsJson(line)
    /\ C10_Filtering => WrittenDate(line) = argv.date.text

\* The inputs of the fatal conditions: an unknown report name, a malformed
\* date, a missing file, a record without a usable timestamp while
\* filtering, a record the report cannot take (for the average report a
\* response time that is no number).
C10_FatalInput ==
    \/ argv.report \notin {"average", "user_agent"}
    \/ C10_Filtering /\ ~IsDate(argv.date.text)
    \/ \E i \in 1..Len(argv.file) : ~disk[argv.file[i]].exists
    \/ /\ C10_Filtering
       /\ \E i \in 1..Len(C10_AllLines) :
             LET line == C10_AllLines[i]
             IN  /\ IsJson(line)
                 /\ \/ ~IsDict(line.value)
                    \/ "@timestamp" \notin DOMAIN line.value.d
                    \/ ~line.value.d["@timestamp"].iso
    \/ \E i \in 1..Len(C10_AllLines) :
          LET line == C10_AllLines[i]
          IN  /\ IsJson(line)
              /\ ~IsDict(line.value)
    \/ /\ argv.report = "average"
       /\ \E i \in 1..Len(C10_AllLines) :
             LET line == C10_AllLines[i]
             IN  /\ IsJson(line)
                 /\ IsDict(line.value)
                 /\ C10_Surviving(line)
                 /\ \/ "url" \notin DOMAIN line.value.d
                    \/ "response_time" \notin DOMAIN line.value.d
                    \/ ~IsDecimal(line.value.d["response_time"])

====
